---- MODULE Spec2Model ----
(***************************************************************************)
(* One invocation of generate-presigned-download-url.py or                 *)
(* generate-presigned-upload-url.py: the command line is parsed, the       *)
(* expiration is validated, the optional checks run against the AWS        *)
(* collaborator, the URL is signed and the result is printed.              *)
(***************************************************************************)
EXTENDS Integers, Sequences, FiniteSets, TLC

VARIABLES script, argv, env, pc, args, object_key, presigned_url,
          out, err, calls, status, interrupted

vars == <<script, argv, env, pc, args, object_key, presigned_url,
          out, err, calls, status, interrupted>>

(* ------------------------------ bounds --------------------------------- *)

\* how far above the recommended maximum the tried expirations go
MaxOver == 1
\* longest object key given on the command line
MaxKeyLen == 2

(* --------------------------- program constants ------------------------- *)

DefaultExpiration == 3600
RecommendedMax == 604800
InterruptStatus == 130

Scripts == {"download", "upload"}

\* the exit status of a process that has not exited yet
Running == -1

URL == "https://signed"

(* ------------------------------ inputs --------------------------------- *)

\* values of --expiration that are integers
ExpirationValues ==
  {-1, 0, 1, DefaultExpiration, RecommendedMax}
    \cup {RecommendedMax + i : i \in 1..MaxOver}

\* the --expiration token: absent, not an integer, or an integer
ExpirationTokens ==
  {[given |-> FALSE, isInt |-> TRUE, val |-> DefaultExpiration],
   [given |-> TRUE, isInt |-> FALSE, val |-> 0]}
    \cup {[given |-> TRUE, isInt |-> TRUE, val |-> v] : v \in ExpirationValues}

\* object keys that can be given on the command line (the empty one included)
GivenKeys == {[i \in 1..n |-> "k"] : n \in 0..MaxKeyLen}

\* --object-key / -k of the upload script: absent or a given string
ObjectKeyTokens ==
  {[given |-> FALSE, val |-> <<>>]} \cup {[given |-> TRUE, val |-> k] : k \in GivenKeys}

\* --filename (download) or --content-type (upload): None or a string
ExtraTokens == {"None", "x"}

\* what the command line looks like to argparse
Syntaxes == {"ok", "missing_positional", "unknown_option", "help"}

\* the local times datetime.now() returns (the system clock: years of 4 digits)
Clocks ==
  {[Y |-> 1970, M |-> 1, D |-> 1, h |-> 0, m |-> 0, s |-> 0],
   [Y |-> 2025, M |-> 3, D |-> 14, h |-> 9, m |-> 5, s |-> 30],
   [Y |-> 2025, M |-> 11, D |-> 4, h |-> 17, m |-> 42, s |-> 7],
   [Y |-> 9999, M |-> 12, D |-> 31, h |-> 23, m |-> 59, s |-> 59]}

\* the caller's credentials as the collaborator sees them
CredStates == {"valid", "missing", "invalid", "unreachable"}

\* what head_object reports for the object
HeadStates == {"200", "404", "403", "unreachable"}

(* ---------------------------- exceptions ------------------------------- *)

Ok == [cls |-> "ok", code |-> ""]
Exc(c, k) == [cls |-> c, code |-> k]
KeyboardInterrupt == Exc("KeyboardInterrupt", "")

\* an except clause for handlerCls catches an exception of class cls
IsInstance(cls, handlerCls) ==
  CASE handlerCls = "BaseException" -> cls # "ok"
    [] handlerCls = "Exception" -> cls \in {"NoCredentialsError", "ClientError", "Exception"}
    [] OTHER -> cls = handlerCls

\* index of the first except clause that catches cls, 0 when it propagates
Catch(handlers, cls) ==
  IF \E i \in 1..Len(handlers) : IsInstance(cls, handlers[i])
  THEN CHOOSE i \in 1..Len(handlers) :
         /\ IsInstance(cls, handlers[i])
         /\ \A j \in 1..(i - 1) : ~IsInstance(cls, handlers[j])
  ELSE 0

Result(raised, ret, o, e) == [raised |-> raised, ret |-> ret, out |-> o, err |-> e]

(* ------------------------------ helpers -------------------------------- *)

\* check_aws_credentials with a last clause that catches everything
check_aws_credentials_bare(o) ==
  IF o.cls = "ok"
  THEN Result("none", TRUE, <<"success:credentials-valid", "account", "userid", "arn">>, <<>>)
  ELSE LET h == Catch(<<"NoCredentialsError", "ClientError", "BaseException">>, o.cls) IN
       CASE h = 1 -> Result("none", FALSE, <<"warning:aws-configure">>, <<"error:no-credentials">>)
         [] h = 2 -> Result("none", FALSE, <<>>, <<"error:credentials-check">>)
         [] h = 3 -> Result("none", FALSE, <<>>, <<"error:unexpected">>)
         [] OTHER -> Result(o.cls, FALSE, <<>>, <<>>)

\* check_aws_credentials that trusts the caller when STS answers with an error
check_aws_credentials_lenient(o) ==
  IF o.cls = "ok"
  THEN Result("none", TRUE, <<"success:credentials-valid", "account", "userid", "arn">>, <<>>)
  ELSE LET h == Catch(<<"NoCredentialsError", "ClientError", "Exception">>, o.cls) IN
       CASE h = 1 -> Result("none", FALSE, <<"warning:aws-configure">>, <<"error:no-credentials">>)
         [] h = 2 -> Result("none", TRUE, <<>>, <<"error:credentials-check">>)
         [] h = 3 -> Result("none", FALSE, <<>>, <<"error:unexpected">>)
         [] OTHER -> Result(o.cls, FALSE, <<>>, <<>>)

\* check_aws_credentials: o is the outcome of sts.get_caller_identity()
check_aws_credentials(o) ==
  IF o.cls = "ok"
  THEN Result("none", TRUE, <<"success:credentials-valid", "account", "userid", "arn">>, <<>>)
  ELSE LET h == Catch(<<"NoCredentialsError", "ClientError", "Exception">>, o.cls) IN
       CASE h = 1 -> Result("none", FALSE, <<"warning:aws-configure">>, <<"error:no-credentials">>)
         [] h = 2 -> Result("none", FALSE, <<>>, <<"error:credentials-check">>)
         [] h = 3 -> Result("none", FALSE, <<>>, <<"error:unexpected">>)
         [] OTHER -> Result(o.cls, FALSE, <<>>, <<>>)

\* check_object_exists: o is the outcome of s3.head_object()
check_object_exists(o) ==
  IF o.cls = "ok"
  THEN Result("none", TRUE, <<>>, <<>>)
  ELSE LET h == Catch(<<"ClientError", "Exception">>, o.cls) IN
       CASE h = 1 -> IF o.code = "404"
                     THEN Result("none", FALSE, <<>>, <<>>)
                     ELSE Result("none", TRUE, <<"warning:cannot-verify">>, <<>>)
         [] h = 2 -> Result("none", TRUE, <<>>, <<>>)
         [] OTHER -> Result(o.cls, FALSE, <<>>, <<>>)

\* get_object_info: o is the outcome of s3.head_object(); ret is "info is not None"
get_object_info(o) ==
  IF o.cls = "ok"
  THEN Result("none", TRUE, <<>>, <<>>)
  ELSE LET h == Catch(<<"Exception">>, o.cls) IN
       CASE h = 1 -> Result("none", FALSE, <<>>, <<>>)
         [] OTHER -> Result(o.cls, FALSE, <<>>, <<>>)

\* generate_presigned_download_url / generate_presigned_url:
\* o is the outcome of s3.generate_presigned_url(), url what it returned
generate_presigned_url(o, url) ==
  IF o.cls = "ok"
  THEN Result("none", url, <<>>, <<>>)
  ELSE LET h == Catch(<<"ClientError", "Exception">>, o.cls) IN
       CASE h = 1 -> Result("none", "None", <<>>, <<"error:aws">>)
         [] h = 2 -> Result("none", "None", <<>>, <<"error:generation">>)
         [] OTHER -> Result(o.cls, "None", <<>>, <<>>)

(* ------------------------ default object key --------------------------- *)

DigitChar(d) == <<"0", "1", "2", "3", "4", "5", "6", "7", "8", "9">>[d + 1]

RECURSIVE Dec(_)
\* the decimal digits of n >= 0, as %d prints them
Dec(n) == IF n < 10 THEN <<DigitChar(n)>> ELSE Dec(n \div 10) \o <<DigitChar(n % 10)>>

\* %m, %d, %H, %M, %S: two digits, zero padded
Pad2(n) == IF n < 10 THEN <<"0">> \o Dec(n) ELSE Dec(n)

\* strftime with the month, day, hour, minute and second not padded
strftime_unpadded(now) ==
  Dec(now.Y) \o Dec(now.M) \o Dec(now.D) \o <<"-">> \o Dec(now.h) \o Dec(now.m) \o Dec(now.s)

\* datetime.strftime("%Y%m%d-%H%M%S")
strftime(now) ==
  Dec(now.Y) \o Pad2(now.M) \o Pad2(now.D) \o <<"-">> \o Pad2(now.h) \o Pad2(now.m) \o Pad2(now.s)

KeyPrefix == <<"u", "p", "l", "o", "a", "d", "s", "/", "f", "i", "l", "e", "-">>

\* generate_default_object_key, at local time now
generate_default_object_key(now) == KeyPrefix \o strftime(now)

\* the truth value of args.object_key: None and the empty string are false
Truthy(tok) == tok.given /\ tok.val # <<>>

\* object_key = args.object_key if args.object_key else generate_default_object_key()
ChooseObjectKey(tok, now) ==
  IF Truthy(tok) THEN tok.val ELSE generate_default_object_key(now)

(* ---------------------------- validation ------------------------------- *)

\* a validation that lets 0 through
ExpirationInvalid_off_by_one(e) == e < 0

\* a validation that refuses what it should only warn about
ExpirationInvalid_strict(e) == e < 1 \/ e > RecommendedMax

\* if args.expiration < 1
ExpirationInvalid(e) == e < 1

\* if args.expiration > 604800
ExpirationWarns(e) == e > RecommendedMax

\* if not args.quiet: the block that holds the credential and existence checks
RunsChecks(a) == ~a.quiet

\* the existence check and the metadata fetch, run whenever the checks run
NeedsExistCheck_ignoring_no_check(s, a) == s = "download"

\* if not args.no_check (download script only)
NeedsExistCheck(s, a) == s = "download" /\ ~a.no_check

\* a test for None alone: if presigned_url is None
Falsy_none_only(u) == u = "None"

\* presigned_url is None or the empty string
Falsy(u) == u \in {"None", ""}

(* ------------------------------ argparse ------------------------------- *)

NoArgs ==
  [parsed |-> FALSE, expiration |-> 0, quiet |-> FALSE, no_check |-> FALSE,
   object_key |-> [given |-> FALSE, val |-> <<>>], extra |-> "None"]

\* the command line is one argparse refuses
Rejected(av) ==
  av.syntax \in {"missing_positional", "unknown_option"} \/ ~av.expiration.isInt

\* parser.parse_args(): -h prints the help and exits 0, an error prints the
\* usage on stderr and exits 2, otherwise the namespace is returned
parse_args(av) ==
  CASE av.syntax = "help" ->
         [raised |-> "SystemExit", code |-> 0, out |-> <<"help">>, err |-> <<>>, ns |-> NoArgs]
    [] Rejected(av) ->
         [raised |-> "SystemExit", code |-> 2, out |-> <<>>, err |-> <<"usage">>, ns |-> NoArgs]
    [] OTHER ->
         [raised |-> "none", code |-> 0, out |-> <<>>, err |-> <<>>,
          ns |-> [parsed |-> TRUE, expiration |-> av.expiration.val, quiet |-> av.quiet,
                  no_check |-> av.no_check, object_key |-> av.object_key,
                  extra |-> av.extra]]

(* ------------------------- the __main__ guard -------------------------- *)

Guard(st, o, e) == [status |-> st, out |-> o, err |-> e]

\* a guard whose last clause catches BaseException, SystemExit included
main_guard_catch_all(cls, code) ==
  CASE cls = "return" -> Guard(0, <<>>, <<>>)
    [] IsInstance(cls, "KeyboardInterrupt") ->
         Guard(InterruptStatus, <<"", "warning:cancelled">>, <<>>)
    [] OTHER -> Guard(1, <<>>, <<"error:fatal">>)

\* try: main() / except KeyboardInterrupt: exit 130 / except Exception: exit 1;
\* SystemExit is not an Exception and ends the process with its own code
main_guard(cls, code) ==
  CASE cls = "return" -> Guard(0, <<>>, <<>>)
    [] IsInstance(cls, "KeyboardInterrupt") ->
         Guard(InterruptStatus, <<"", "warning:cancelled">>, <<>>)
    [] IsInstance(cls, "Exception") -> Guard(1, <<>>, <<"error:fatal">>)
    [] OTHER -> Guard(code, <<>>, <<>>)

(* --------------------------- the collaborator -------------------------- *)

\* what sts.get_caller_identity() does
GetCallerIdentity(creds) ==
  {KeyboardInterrupt} \cup
  CASE creds = "valid" -> {Ok}
    [] creds = "missing" -> {Exc("NoCredentialsError", "")}
    [] creds = "invalid" -> {Exc("ClientError", "InvalidClientTokenId")}
    [] OTHER -> {Exc("Exception", "")}

\* what s3.head_object() does
HeadObject(head) ==
  {KeyboardInterrupt} \cup
  CASE head = "200" -> {Ok}
    [] head = "404" -> {Exc("ClientError", "404")}
    [] head = "403" -> {Exc("ClientError", "403")}
    [] OTHER -> {Exc("Exception", "")}

\* what s3.generate_presigned_url() returns when it returns
SignedUrls == {URL, ""}

\* what s3.generate_presigned_url() does: the signature is computed locally,
\* so only missing credentials are noticed
GeneratePresignedUrl(creds) ==
  {KeyboardInterrupt} \cup
  IF creds = "missing"
  THEN {Exc("NoCredentialsError", "")}
  ELSE {Ok, Exc("ClientError", "AccessDenied"), Exc("Exception", "")}

Call(fn, site, o, key, expires, extra) ==
  [fn |-> fn, site |-> site, cls |-> o.cls, code |-> o.code,
   key |-> key, expires |-> expires, extra |-> extra]

(* ------------------------------ output --------------------------------- *)

\* print_usage_examples: the banner with the URL, the example commands
\* (each embeds the URL) and the duration line
print_usage_examples(url) ==
  <<"", "rule", "success:url-title", url, "rule", "",
    "warning:how-to", "examples", "warning:expires-in", "">>

\* the lines that announce the request, after the credential check
AnnounceLines(a) ==
  <<"", "warning:generating", "bucket", "object-key", "expiration">>
    \o (IF a.extra # "None" THEN <<"extra">> ELSE <<>>) \o <<"">>

Range(q) == {q[i] : i \in 1..Len(q)}

(* ------------------------------- state --------------------------------- *)

\* the positional object key of the download script
PositionalKey == <<"o", "b", "j">>

Init ==
  /\ script \in Scripts
  /\ argv \in [syntax : Syntaxes, expiration : ExpirationTokens, quiet : BOOLEAN,
               no_check : BOOLEAN, object_key : ObjectKeyTokens, extra : ExtraTokens]
  /\ script = "download" => argv.object_key = [given |-> FALSE, val |-> <<>>]
  /\ script = "upload" => ~argv.no_check
  /\ env \in [creds : CredStates, head : HeadStates]
  /\ script = "upload" => env.head = "200"
  /\ pc = "parse"
  /\ args = NoArgs
  /\ object_key = <<>>
  /\ presigned_url = "unset"
  /\ out = <<>>
  /\ err = <<>>
  /\ calls = <<>>
  /\ status = Running
  /\ interrupted = FALSE

\* the exception cls (or the return of main) reaches the __main__ guard and
\* the process exits; o and e were printed before
Leave(cls, code, o, e) ==
  LET g == main_guard(cls, code) IN
  /\ pc' = "exited"
  /\ status' = g.status
  /\ out' = out \o o \o g.out
  /\ err' = err \o e \o g.err

(* ------------------------------ actions -------------------------------- *)

\* args = parser.parse_args()
ParseArgs ==
  /\ pc = "parse"
  /\ \E o \in {Ok, KeyboardInterrupt} :
       /\ interrupted' = (o.cls = "KeyboardInterrupt")
       /\ IF o.cls # "ok"
          THEN Leave(o.cls, 0, <<>>, <<>>) /\ UNCHANGED args
          ELSE LET r == parse_args(argv) IN
               IF r.raised # "none"
               THEN Leave(r.raised, r.code, r.out, r.err) /\ UNCHANGED args
               ELSE /\ args' = r.ns
                    /\ pc' = "validate"
                    /\ UNCHANGED <<out, err, status>>
  /\ UNCHANGED <<script, argv, env, object_key, presigned_url, calls>>

\* the validation of the expiration and the object key the run works on
\* (upload: the one given, or the default one; download: the positional one)
Validate ==
  /\ pc = "validate"
  /\ \E o \in {Ok, KeyboardInterrupt} :
       /\ interrupted' = (o.cls = "KeyboardInterrupt")
       /\ IF o.cls # "ok"
          THEN Leave(o.cls, 0, <<>>, <<>>) /\ UNCHANGED object_key
          ELSE IF ExpirationInvalid(args.expiration)
          THEN Leave("SystemExit", 1, <<>>, <<"error:expiration">>) /\ UNCHANGED object_key
          ELSE /\ out' = out \o (IF ExpirationWarns(args.expiration)
                                 THEN <<"warning:expiration-max">> ELSE <<>>)
               /\ IF script = "upload"
                  THEN object_key' \in {ChooseObjectKey(args.object_key, now) : now \in Clocks}
                  ELSE object_key' = PositionalKey
               /\ pc' = IF RunsChecks(args) THEN "cred" ELSE "sign"
               /\ UNCHANGED <<err, status>>
  /\ UNCHANGED <<script, argv, env, args, presigned_url, calls>>

\* if not check_aws_credentials(): sys.exit(1), then the request is announced
CredCheck ==
  /\ pc = "cred"
  /\ \E o \in GetCallerIdentity(env.creds) :
       LET r == check_aws_credentials(o)
           pre == <<"warning:prerequisites", "">> IN
       /\ interrupted' = (o.cls = "KeyboardInterrupt")
       /\ calls' = Append(calls, Call("get_caller_identity", "check_aws_credentials",
                                      o, <<>>, 0, "None"))
       /\ IF r.raised # "none"
          THEN Leave(r.raised, 0, pre \o r.out, r.err)
          ELSE IF ~r.ret
          THEN Leave("SystemExit", 1, pre \o r.out, r.err)
          ELSE /\ out' = out \o pre \o r.out \o AnnounceLines(args)
               /\ err' = err \o r.err
               /\ pc' = IF NeedsExistCheck(script, args) THEN "exist" ELSE "sign"
               /\ UNCHANGED status
  /\ UNCHANGED <<script, argv, env, args, object_key, presigned_url>>

\* if not check_object_exists(...): sys.exit(1)
ExistCheck ==
  /\ pc = "exist"
  /\ \E o \in HeadObject(env.head) :
       LET r == check_object_exists(o)
           pre == <<"info:checking">> IN
       /\ interrupted' = (o.cls = "KeyboardInterrupt")
       /\ calls' = Append(calls, Call("head_object", "check_object_exists",
                                      o, object_key, 0, "None"))
       /\ IF r.raised # "none"
          THEN Leave(r.raised, 0, pre \o r.out, r.err)
          ELSE IF ~r.ret
          THEN Leave("SystemExit", 1, pre \o r.out \o <<"warning:use-no-check">>,
                     r.err \o <<"error:not-found">>)
          ELSE /\ out' = out \o pre \o r.out
               /\ err' = err \o r.err
               /\ pc' = "info"
               /\ UNCHANGED status
  /\ UNCHANGED <<script, argv, env, args, object_key, presigned_url>>

\* info = get_object_info(...), printed when there is one
GetInfo ==
  /\ pc = "info"
  /\ \E o \in HeadObject(env.head) :
       LET r == get_object_info(o) IN
       /\ interrupted' = (o.cls = "KeyboardInterrupt")
       /\ calls' = Append(calls, Call("head_object", "get_object_info",
                                      o, object_key, 0, "None"))
       /\ IF r.raised # "none"
          THEN Leave(r.raised, 0, r.out, r.err)
          ELSE /\ out' = out \o (IF r.ret
                                 THEN <<"success:found", "size", "type", "modified">>
                                 ELSE <<>>) \o <<"">>
               /\ err' = err \o r.err
               /\ pc' = "sign"
               /\ UNCHANGED status
  /\ UNCHANGED <<script, argv, env, args, object_key, presigned_url>>

\* presigned_url = generate_presigned_(download_)url(bucket, key, expiration, extra)
\* and if not presigned_url: sys.exit(1)
Sign ==
  /\ pc = "sign"
  /\ \E o \in GeneratePresignedUrl(env.creds), u \in SignedUrls :
       LET r == generate_presigned_url(o, u) IN
       /\ o.cls # "ok" => u = URL
       /\ interrupted' = (o.cls = "KeyboardInterrupt")
       /\ calls' = Append(calls, Call("generate_presigned_url",
                                      IF script = "download" THEN "get_object" ELSE "put_object",
                                      o, object_key, args.expiration, args.extra))
       /\ IF r.raised # "none"
          THEN Leave(r.raised, 0, r.out, r.err) /\ UNCHANGED presigned_url
          ELSE /\ presigned_url' = r.ret
               /\ IF Falsy(r.ret)
                  THEN Leave("SystemExit", 1, r.out, r.err \o <<"error:generation-failed">>)
                  ELSE /\ pc' = "output"
                       /\ out' = out \o r.out
                       /\ err' = err \o r.err
                       /\ UNCHANGED status
  /\ UNCHANGED <<script, argv, env, args, object_key>>

\* the URL alone in quiet mode, the success line and the examples otherwise;
\* main() returns
Output ==
  /\ pc = "output"
  /\ \E o \in {Ok, KeyboardInterrupt}, printed \in BOOLEAN :
       LET lines == IF args.quiet THEN <<presigned_url>>
                    ELSE <<"success:generated">> \o print_usage_examples(presigned_url) IN
       /\ o.cls = "ok" => printed
       /\ interrupted' = (o.cls = "KeyboardInterrupt")
       /\ Leave(IF o.cls = "ok" THEN "return" ELSE o.cls, 0,
                IF printed THEN lines ELSE <<>>, <<>>)
  /\ UNCHANGED <<script, argv, env, args, object_key, presigned_url, calls>>

Next == ParseArgs \/ Validate \/ CredCheck \/ ExistCheck \/ GetInfo \/ Sign \/ Output

Spec == Init /\ [][Next]_vars

(* --------------------------- vocabulary -------------------------------- *)

Exited == pc = "exited"

SignCalls == {i \in 1..Len(calls) : calls[i].fn = "generate_presigned_url"}

HeadCalls == {i \in 1..Len(calls) : calls[i].fn = "head_object"}

UrlPrinted == URL \in Range(out)

(* ------------------------------- C1 ------------------------------------ *)

\* C1: when the parsed expiration is below 1, no collaborator call is ever
\* made, the run never gets past the validation, and the process exits with
\* status 1 (a user interrupt before the validation line exits 130 instead).
C1_InvalidExpirationExits1WithoutCalls ==
  (args.parsed /\ args.expiration < 1) =>
    /\ calls = <<>>
    /\ pc \in {"validate", "exited"}
    /\ ~UrlPrinted
    /\ (Exited /\ ~interrupted) => status = 1

C1_Witness ==
  /\ args.parsed /\ args.expiration < 1 /\ args.quiet
  /\ Exited /\ status = 1 /\ "error:expiration" \in Range(err)

(* ------------------------------- C2 ------------------------------------ *)

\* C2: with --quiet and an expiration of at least 1, nothing but the signed
\* URL is ever written to stdout, and a successful run wrote exactly the URL
\* (stated for runs the user does not interrupt).
C2_QuietStdoutIsExactlyTheUrl ==
  (args.parsed /\ args.quiet /\ args.expiration >= 1 /\ ~interrupted) =>
    /\ Range(out) \subseteq {URL}
    /\ (Exited /\ status = 0) => out = <<URL>>

(* ------------------------------- C3 ------------------------------------ *)

\* C3: download script, the object does not exist and --no-check is absent:
\* whatever --quiet says, generate_presigned_url is never called, no URL is
\* printed and the process exits with status 1 (stated for runs the user
\* does not interrupt).
C3_MissingObjectIsFatal ==
  (script = "download" /\ env.head = "404" /\ args.parsed /\ ~args.no_check
     /\ ~interrupted) =>
    /\ SignCalls = {}
    /\ ~UrlPrinted
    /\ Exited => status = 1

(* ------------------------------- C4 ------------------------------------ *)

\* C4 as stated: the process only ever exits with status 0, 1 or 130.
C4_ExitStatusIn_0_1_130 ==
  Exited => status \in {0, 1, InterruptStatus}

\* C4 amended: the exit status is 0, 1, 2 or 130; it is 130 exactly when the
\* user interrupted the run, and otherwise 2 exactly when argparse refused the
\* command line (missing positional, non-integer --expiration, unknown
\* option), 0 exactly when the URL was signed and printed or the help was
\* asked for, and 1 in every other case (expiration < 1, failures).
C4_ExitStatusIn_0_1_2_130 ==
  Exited =>
    /\ status \in {0, 1, 2, InterruptStatus}
    /\ (status = InterruptStatus) = interrupted
    /\ ~interrupted =>
         /\ (status = 2) = (argv.syntax # "help" /\ Rejected(argv))
         /\ (status = 0) = (argv.syntax = "help" \/ presigned_url = URL)
         /\ (args.parsed /\ args.expiration < 1) => status = 1

C4_Witness == Exited /\ status = 2 /\ ~argv.expiration.isInt /\ argv.syntax = "ok"

(* ------------------------------- C5 ------------------------------------ *)

\* C5: once a KeyboardInterrupt was raised, in main() or inside a helper's
\* try block, the process has exited and its status is 130: no except clause
\* of a helper absorbs the interrupt.
C5_InterruptExits130 ==
  interrupted => (Exited /\ status = InterruptStatus)

C5_Witness ==
  /\ interrupted /\ Exited /\ status = InterruptStatus
  /\ calls # <<>>
  /\ calls[Len(calls)].site = "check_aws_credentials"
  /\ calls[Len(calls)].cls = "KeyboardInterrupt"

(* ------------------------------- C6 ------------------------------------ *)

\* C6: with an expiration above 604800 the warning is printed and the run
\* goes on: every signing call carries ExpiresIn = e unchanged, a run whose
\* signing call returned a URL prints it and exits 0 (unless the user
\* interrupts it), and an exit with status 1 only follows a collaborator
\* call, never the size of e alone.
C6_LongExpirationWarnsAndSigns ==
  (args.parsed /\ args.expiration > RecommendedMax) =>
    /\ (pc \in {"cred", "exist", "info", "sign", "output"} \/ calls # <<>>) =>
         "warning:expiration-max" \in Range(out)
    /\ \A i \in SignCalls : calls[i].expires = args.expiration
    /\ (Exited /\ ~interrupted /\ presigned_url = URL) =>
         (status = 0 /\ UrlPrinted /\ SignCalls # {})
    /\ (Exited /\ status = 1) => calls # <<>>

C6_Witness ==
  /\ args.parsed /\ args.expiration > RecommendedMax
  /\ Exited /\ status = 0 /\ UrlPrinted
  /\ "warning:expiration-max" \in Range(out)
  /\ \E i \in SignCalls : calls[i].expires > RecommendedMax

(* ------------------------------- C7 ------------------------------------ *)

\* C7: when the credentials are missing or invalid, the run is fatal in every
\* display mode, --quiet included: a diagnostic is printed, the process exits
\* with status 1 and no signed URL is printed (stated for a command line
\* that passes the validation and a run the user does not interrupt).
C7_BadCredentialsAreFatal ==
  (args.parsed /\ args.expiration >= 1 /\ env.creds \in {"missing", "invalid"}
     /\ ~interrupted) =>
    /\ ~UrlPrinted
    /\ Exited => (status = 1 /\ err # <<>>)

(* ------------------------------- C8 ------------------------------------ *)

IsDigit(c) == c \in {"0", "1", "2", "3", "4", "5", "6", "7", "8", "9"}

\* uploads/file-<8 digits>-<6 digits>
MatchesDefaultPattern(k) ==
  /\ Len(k) = Len(KeyPrefix) + 8 + 1 + 6
  /\ SubSeq(k, 1, Len(KeyPrefix)) = KeyPrefix
  /\ \A i \in 1..8 : IsDigit(k[Len(KeyPrefix) + i])
  /\ k[Len(KeyPrefix) + 9] = "-"
  /\ \A i \in 1..6 : IsDigit(k[Len(KeyPrefix) + 9 + i])

\* C8: upload script: the key passed to generate_presigned_url is the given
\* --object-key unchanged when one is given and is not empty, and otherwise
\* (omitted or empty) 'uploads/file-' followed by 8 digits, '-' and 6 digits.
C8_UploadKeyGivenOrDefaultPattern ==
  script = "upload" =>
    \A i \in SignCalls :
      IF argv.object_key.given /\ argv.object_key.val # <<>>
      THEN calls[i].key = argv.object_key.val
      ELSE MatchesDefaultPattern(calls[i].key)

C8_Witness ==
  /\ script = "upload" /\ ~argv.object_key.given
  /\ \E i \in SignCalls : Len(calls[i].key) = 28 /\ calls[i].key[14] = "1"

(* ------------------------------- C9 ------------------------------------ *)

\* the ClientErrors the code treats as fatal: from get_caller_identity, from
\* generate_presigned_url, and the 404 of the existence check
FatalError(c) ==
  /\ c.cls = "ClientError"
  /\ \/ c.site \in {"check_aws_credentials", "get_object", "put_object"}
     \/ (c.site = "check_object_exists" /\ c.code = "404")

\* C9 as stated: a ClientError reported by any collaborator call ends the run
\* there with status 1: no further call, no URL printed.
C9_EveryClientErrorIsTerminal ==
  \A i \in 1..Len(calls) :
    calls[i].cls = "ClientError" =>
      (Exited /\ status = 1 /\ i = Len(calls) /\ ~UrlPrinted)

\* C9 amended: a ClientError from get_caller_identity or from
\* generate_presigned_url, or a 404 from the head_object of the existence
\* check, ends the run there with status 1 and no URL; any other ClientError of
\* the existence check and any error of the metadata fetch do not end the
\* run, which goes on to the signing call.
C9_FatalClientErrorsAreTerminal ==
  \A i \in 1..Len(calls) :
    /\ FatalError(calls[i]) =>
         (Exited /\ status = 1 /\ i = Len(calls) /\ ~UrlPrinted)
    /\ (calls[i].cls = "ClientError" /\ ~FatalError(calls[i])) =>
         /\ i = Len(calls) => ~Exited
         /\ (Exited /\ ~interrupted) => calls[Len(calls)].fn = "generate_presigned_url"

C9_Witness ==
  /\ Exited /\ status = 1 /\ ~args.quiet
  /\ calls # <<>>
  /\ calls[Len(calls)].fn = "get_caller_identity"
  /\ calls[Len(calls)].cls = "ClientError"

(* ------------------------------- C10 ----------------------------------- *)

\* C10 as stated: the download script calls head_object at most once per run
\* (stated for runs the user does not interrupt).
C10_AtMostOneHeadObject ==
  (script = "download" /\ ~interrupted) => Cardinality(HeadCalls) <= 1

\* C10 amended: the download script calls head_object at most twice per run,
\* once in the existence check and, when that check did not end the run, once
\* in the metadata fetch (get_object_info, at most once), and never when
\* --no-check or --quiet is given; the upload script never calls it.
C10_AtMostTwoHeadObjects ==
  /\ Cardinality(HeadCalls) <= 2
  /\ \A i, j \in HeadCalls : calls[i].site = calls[j].site => i = j
  /\ \A i \in HeadCalls :
       calls[i].site = "get_object_info" =>
         (i - 1 \in HeadCalls /\ calls[i - 1].site = "check_object_exists"
            /\ check_object_exists(calls[i - 1]).ret)
  /\ (args.parsed /\ (args.quiet \/ args.no_check)) => HeadCalls = {}
  /\ script = "upload" => HeadCalls = {}

C10_Witness ==
  /\ script = "download" /\ Cardinality(HeadCalls) = 2
  /\ Exited /\ status = 0

(* ------------------------------- C11 ----------------------------------- *)

\* the signing call of the run failed: it raised an exception other than the
\* user's interrupt, or what came back is None or the empty string
SigningFailed(i) ==
  \/ calls[i].cls \notin {"ok", "KeyboardInterrupt"}
  \/ (calls[i].cls = "ok" /\ presigned_url \in {"None", ""})

\* the enabled checks were called before the signing call and passed
ChecksPassed ==
  /\ RunsChecks(args) =>
       /\ Len(calls) >= 2
       /\ calls[1].fn = "get_caller_identity"
       /\ calls[1].cls = "ok"
  /\ (RunsChecks(args) /\ NeedsExistCheck(script, args)) =>
       /\ Len(calls) >= 3
       /\ calls[2].site = "check_object_exists"
       /\ calls[2].cls # "KeyboardInterrupt"
       /\ ~(calls[2].cls = "ClientError" /\ calls[2].code = "404")

\* exactly one signing call, the last call of the run, returned a non-empty
\* URL that was written to stdout, after the enabled checks had passed
SignedOnceAndPrinted ==
  /\ Cardinality(SignCalls) = 1
  /\ Len(calls) \in SignCalls
  /\ calls[Len(calls)].cls = "ok"
  /\ presigned_url = URL
  /\ UrlPrinted
  /\ ChecksPassed

\* C11 as stated: the process exits with status 0 only if the signing call
\* was made exactly once, after the enabled checks had passed, returned a
\* non-empty URL and that URL was printed; a signing call that fails leads to
\* exit status 1 with no URL on stdout.
C11_ExitZeroOnlyAfterSigning ==
  /\ (Exited /\ status = 0) => SignedOnceAndPrinted
  /\ \A i \in SignCalls : SigningFailed(i) => (Exited /\ status = 1 /\ ~UrlPrinted)

\* C11 amended: the process exits with status 0 only if --help was asked for
\* (no collaborator call, no URL) or the signing call was made exactly once,
\* after the enabled checks had passed, returned a non-empty URL and that URL
\* was printed; a signing call that returns None or the empty string, or
\* raises an exception other than the user's interrupt, leads to exit status 1
\* with no URL on stdout.
C11_ExitZeroOnlyAfterSigningOrHelp ==
  /\ Cardinality(SignCalls) <= 1
  /\ (Exited /\ status = 0) =>
       IF argv.syntax = "help"
       THEN calls = <<>> /\ ~UrlPrinted /\ ~args.parsed
       ELSE SignedOnceAndPrinted
  /\ \A i \in SignCalls : SigningFailed(i) => (Exited /\ status = 1 /\ ~UrlPrinted)

C11_Witness ==
  /\ Exited /\ status = 0 /\ argv.syntax = "ok"
  /\ script = "download" /\ ~args.quiet /\ ~args.no_check
  /\ Len(calls) = 4 /\ calls[4].fn = "generate_presigned_url"
  /\ UrlPrinted

====
